---- MODULE Spec2Model ----
(***************************************************************************)
(* Model of the dioxide dependency-injection core (src/rust/src/lib.rs):   *)
(* RustContainer (provider registry + singleton cache, each behind an      *)
(* RwLock) and the Python-facing Container facade.                         *)
(*                                                                         *)
(* Callers are threads.  Every container call is a frame on the calling    *)
(* thread's stack; a constructor or factory invoked by resolve may itself  *)
(* call the container again (a nested frame).  Each lock acquisition, map  *)
(* read and map write is its own step, so every interleaving the RwLocks   *)
(* allow is explored (the interpreter lock of the host only removes        *)
(* interleavings, it adds none).                                           *)
(***************************************************************************)
EXTENDS Integers, Sequences, FiniteSets, TLC

\* ------------------------------------------------------------------ bounds
MaxOps == 3       \* container calls started in one behaviour
MaxDepth == 2     \* frames per thread: a call plus calls nested in a factory

\* two concurrent callers
Threads == {1, 2}

\* ------------------------------------------------------------ the universe
\* Python type objects used as identities.  A1 and A2 are two distinct type
\* objects that carry the same __name__.
Keys == {"A1", "A2", "B"}

\* PyType::name() of a type object (TypeKey::type_name)
type_name(k) == IF k = "B" THEN "B" ELSE "A"

\* Python objects: [by, n] is the n-th object produced by `by`; "ext" are the
\* objects the caller built itself and registers as instances.
NoVal == [by |-> "none", n |-> 0]
ExtObjects == {[by |-> "ext", n |-> 1], [by |-> "ext", n |-> 2]}
Callables == {"C", "F"}     \* C: a class, F: a factory callable

\* enum Provider
Instance(obj) == [kind |-> "Instance", obj |-> obj, fn |-> "-"]
Class(cls) == [kind |-> "Class", obj |-> NoVal, fn |-> cls]
Factory(f) == [kind |-> "Factory", obj |-> NoVal, fn |-> f]
NoProvider == [kind |-> "None", obj |-> NoVal, fn |-> "-"]
Providers == {Instance(o) : o \in ExtObjects} \cup {Class("C"), Factory("F")}

\* Python exceptions a constructor or factory may raise
Exceptions == {[type |-> "ValueError", msg |-> "boom"],
               [type |-> "KeyError", msg |-> "boom"]}
NoExc == [type |-> "-", msg |-> <<>>]

\* PyErr::to_string(): "<type>: <message>"
PyErrToString(x) == <<x.type, x.msg>>

\* enum ContainerError, and impl From<PyErr> for ContainerError
NoErr == [kind |-> "-", info |-> <<>>]
DependencyNotRegistered(k) == [kind |-> "DependencyNotRegistered", info |-> <<type_name(k)>>]
DuplicateRegistration(k) == [kind |-> "DuplicateRegistration", info |-> <<type_name(k)>>]
PythonError(x) == [kind |-> "PythonError", info |-> PyErrToString(x)]
ProviderRegistrationFailed(k, reason) ==
  [kind |-> "ProviderRegistrationFailed", info |-> <<type_name(k), reason>>]

\* #[error("...")] Display of ContainerError: a fixed prefix, then the fields
ErrorToString(e) ==
  <<CASE e.kind = "DependencyNotRegistered" -> "Dependency not registered: "
      [] e.kind = "ProviderRegistrationFailed" -> "Provider registration failed: "
      [] e.kind = "DuplicateRegistration" -> "Duplicate provider registration: "
      [] e.kind = "PythonError" -> "Python error: "
      [] OTHER -> "">> \o e.info

\* Container::register_* / resolve: .map_err(|e| PyErr::new::<PyKeyError, _>(e.to_string()))
map_err(e) ==
  IF e.kind = "-" THEN NoExc ELSE [type |-> "KeyError", msg |-> ErrorToString(e)]

\* --------------------------------------------------------------- TypeKey
\* impl Hash for TypeKey: the hash of the pointer to the type object; the
\* type objects A1 and A2 collide in one bucket, B falls into another
KeyHash(a) == IF a = "B" THEN "h2" ELSE "h1"

KeyEq_ByName(a, b) == type_name(a) = type_name(b)
\* impl PartialEq for TypeKey: pointer equality of the type objects
KeyEq(a, b) == a = b

\* ------------------------------------------------- HashMap<TypeKey, V>
\* a map is a set of entries [key, val]; a lookup goes to the bucket of the
\* key's hash and compares the keys found there
Matches(m, k) == {e \in m : KeyHash(e.key) = KeyHash(k) /\ KeyEq(e.key, k)}

ContainsKey_Never(m, k) == FALSE
\* HashMap::contains_key
ContainsKey(m, k) == Matches(m, k) # {}

\* HashMap::get(..).cloned(): the value, or none
MapGet(m, k, none) == IF Matches(m, k) = {} THEN none ELSE (CHOOSE e \in Matches(m, k) : TRUE).val

MapInsert_Clobber(m, k, v) == {[key |-> k, val |-> v]}
\* HashMap::insert: an equal key keeps its slot and takes the new value
MapInsert(m, k, v) ==
  IF Matches(m, k) = {}
    THEN m \cup {[key |-> k, val |-> v]}
    ELSE (m \ Matches(m, k)) \cup {[key |-> (CHOOSE e \in Matches(m, k) : TRUE).key, val |-> v]}

\* HashMap::len / HashMap::is_empty
MapLen(m) == Cardinality(m)
MapIsEmpty(m) == m = {}

\* Py::clone_ref: a new handle to the same Python object
CloneRef_Copy(obj) == [by |-> "copy", n |-> obj.n]
CloneRef(obj) == obj

\* ------------------------------------------------------------- RwLock
\* a lock is [w, r]: the holders of the write guard and of read guards; a
\* holder is <<thread, frame depth>>
FreeLock == [w |-> {}, r |-> {}]
CanAcquireWrite_NoExclusion(lk) == TRUE
\* RwLock::write(): exclusive
CanAcquireWrite(lk) == lk.w = {} /\ lk.r = {}
\* RwLock::read(): shared among readers
CanAcquireRead(lk) == lk.w = {}
AcquireWrite(lk, h) == [lk EXCEPT !.w = @ \cup {h}]
AcquireRead(lk, h) == [lk EXCEPT !.r = @ \cup {h}]
Release_Leak(lk, h) == lk
\* drop of the guard
Release(lk, h) == [w |-> lk.w \ {h}, r |-> lk.r \ {h}]

\* ------------------------------------------------------------- state
VARIABLES
  providers,   \* RustContainer.providers: the registry map
  singletons,  \* RustContainer.singletons: the cache map
  plock,       \* the RwLock around providers
  slock,       \* the RwLock around singletons
  stack,       \* per thread: the frames of its container calls in progress
  res,         \* outcome of the call that completed last, as its caller saw it
  made,        \* per callable: how many objects it has constructed
  ops,         \* history: container calls started
  firstReg,    \* history: per identity, provider of the first register call that returned Ok
  okRegs,      \* history: per identity, register calls that returned Ok
  regCalls,    \* history: per identity, register calls started
  okRes,       \* history: per identity, resolve calls that returned a value
  errRes,      \* history: per identity, resolve calls that returned PythonError
  retVals      \* history: per identity, the objects resolve has returned

vars == <<providers, singletons, plock, slock, stack, res, made, ops,
          firstReg, okRegs, regCalls, okRes, errRes, retVals>>

reg == <<providers, singletons>>
hist_reg == <<ops, firstReg, okRegs, regCalls>>
hist_res == <<okRes, errRes, retVals>>
hist == <<hist_reg, hist_res>>

NoRes == [op |-> "none", key |-> "-", err |-> NoErr, val |-> NoVal, inv |-> 0,
          pre |-> FALSE, exc |-> NoExc, num |-> 0, flag |-> FALSE]

Init ==
  /\ providers = {}
  /\ singletons = {}
  /\ plock = FreeLock
  /\ slock = FreeLock
  /\ stack = [t \in Threads |-> <<>>]
  /\ res = NoRes
  /\ made = [c \in Callables |-> 0]
  /\ ops = 0
  /\ firstReg = [k \in Keys |-> NoProvider]
  /\ okRegs = [k \in Keys |-> 0]
  /\ regCalls = [k \in Keys |-> 0]
  /\ okRes = [k \in Keys |-> 0]
  /\ errRes = [k \in Keys |-> 0]
  /\ retVals = [k \in Keys |-> {}]

\* ------------------------------------------------------------- frames
Depth(t) == Len(stack[t])
Top(t) == stack[t][Depth(t)]
Me(t) == <<t, Depth(t)>>
At(t, op, pc) == Depth(t) > 0 /\ Top(t).op = op /\ Top(t).pc = pc
Goto(t, pc) == [stack EXCEPT ![t][Depth(t)].pc = pc]
Pop(t) == [stack EXCEPT ![t] = SubSeq(@, 1, Depth(t) - 1)]

\* history: is identity k in the registry (by the identity of the type object)
Registered(k) == \E e \in providers : e.key = k

\* A caller can start a call when it is outside the container, or when it is
\* the body of a constructor/factory that resolve is running.
CanCall(t) == IF Depth(t) = 0 THEN TRUE ELSE Top(t).pc = "call" /\ Depth(t) < MaxDepth

Frame(op, k, p) ==
  [op |-> op, key |-> k, arg |-> p, pc |-> IF op = "register" THEN "r_lock" ELSE "s_lock",
   prov |-> NoProvider, inv |-> 0, pre |-> Registered(k)]

\* the outcome of the top frame of t, as the caller of that frame sees it
Outcome(t, err, val) ==
  [op |-> Top(t).op, key |-> Top(t).key, err |-> err, val |-> val, inv |-> Top(t).inv,
   pre |-> Top(t).pre, exc |-> map_err(err), num |-> 0, flag |-> FALSE]

Return(t, err, val) ==
  /\ stack' = Pop(t)
  /\ res' = Outcome(t, err, val)

\* resolve returns: the outcome, and the history of resolve outcomes
ReturnResolve(t, err, val) ==
  /\ Return(t, err, val)
  /\ okRes' = IF err = NoErr THEN [okRes EXCEPT ![Top(t).key] = @ + 1] ELSE okRes
  /\ retVals' = IF err = NoErr THEN [retVals EXCEPT ![Top(t).key] = @ \cup {val}] ELSE retVals
  /\ errRes' = IF err.kind = "PythonError" THEN [errRes EXCEPT ![Top(t).key] = @ + 1] ELSE errRes

\* ------------------------------------------------------------- register
\* Container::register_instance / register_class / register_factory entered
CallRegister(t) ==
  /\ CanCall(t)
  /\ ops < MaxOps
  /\ \E k \in Keys, p \in Providers :
       /\ stack' = [stack EXCEPT ![t] = Append(@, Frame("register", k, p))]
       /\ regCalls' = [regCalls EXCEPT ![k] = @ + 1]
  /\ ops' = ops + 1
  /\ UNCHANGED <<reg, plock, slock, res, made, firstReg, okRegs, hist_res>>

\* let mut providers = self.providers.write().unwrap();
RegisterLock(t) ==
  /\ At(t, "register", "r_lock")
  /\ CanAcquireWrite(plock)
  /\ plock' = AcquireWrite(plock, Me(t))
  /\ stack' = Goto(t, "r_check")
  /\ UNCHANGED <<reg, slock, res, made, hist>>

RegistrationError_Failed(k) == ProviderRegistrationFailed(k, "duplicate")
\* return Err(ContainerError::DuplicateRegistration { type_name: .. }): the one
\* error a register_* function constructs
RegistrationError(k) == DuplicateRegistration(k)

\* if providers.contains_key(&type_key) { return Err(DuplicateRegistration) }
RegisterCheck(t) ==
  /\ At(t, "register", "r_check")
  /\ IF ContainsKey(providers, Top(t).key)
       THEN /\ Return(t, RegistrationError(Top(t).key), NoVal)
            /\ plock' = Release(plock, Me(t))
       ELSE /\ stack' = Goto(t, "r_insert")
            /\ UNCHANGED <<plock, res>>
  /\ UNCHANGED <<reg, slock, made, hist>>

\* providers.insert(type_key, Provider::X(..)); Ok(())
RegisterInsert(t) ==
  /\ At(t, "register", "r_insert")
  /\ providers' = MapInsert(providers, Top(t).key, Top(t).arg)
  /\ plock' = Release(plock, Me(t))
  /\ Return(t, NoErr, NoVal)
  /\ okRegs' = [okRegs EXCEPT ![Top(t).key] = @ + 1]
  /\ firstReg' = IF firstReg[Top(t).key] = NoProvider
                   THEN [firstReg EXCEPT ![Top(t).key] = Top(t).arg]
                   ELSE firstReg
  /\ UNCHANGED <<singletons, slock, made, ops, regCalls, hist_res>>

\* ------------------------------------------------------------- resolve
\* Container::resolve entered
CallResolve(t) ==
  /\ CanCall(t)
  /\ ops < MaxOps
  /\ \E k \in Keys :
       stack' = [stack EXCEPT ![t] = Append(@, Frame("resolve", k, NoProvider))]
  /\ ops' = ops + 1
  /\ UNCHANGED <<reg, plock, slock, res, made, firstReg, okRegs, regCalls, hist_res>>

\* let singletons = self.singletons.read().unwrap();
ResolveCacheLock(t) ==
  /\ At(t, "resolve", "s_lock")
  /\ CanAcquireRead(slock)
  /\ slock' = AcquireRead(slock, Me(t))
  /\ stack' = Goto(t, "s_get")
  /\ UNCHANGED <<reg, plock, res, made, hist>>

ReleaseCacheGuard_Held(lk, h) == lk
\* the end of the `{ let singletons = ..; .. }` block (and the return inside
\* it): the read guard of the cache is dropped before the registry is locked
ReleaseCacheGuard(lk, h) == Release(lk, h)

\* if let Some(instance) = singletons.get(type_key) { return Ok(instance.clone_ref(py)) }
\* and the end of the block, which drops the read guard
ResolveCacheGet(t) ==
  /\ At(t, "resolve", "s_get")
  /\ slock' = ReleaseCacheGuard(slock, Me(t))
  /\ IF ContainsKey(singletons, Top(t).key)
       THEN ReturnResolve(t, NoErr, CloneRef(MapGet(singletons, Top(t).key, NoVal)))
       ELSE /\ stack' = Goto(t, "p_lock")
            /\ UNCHANGED <<res, hist_res>>
  /\ UNCHANGED <<reg, plock, made, hist_reg>>

\* let providers = self.providers.read().unwrap();
ResolveProvidersLock(t) ==
  /\ At(t, "resolve", "p_lock")
  /\ CanAcquireRead(plock)
  /\ plock' = AcquireRead(plock, Me(t))
  /\ stack' = Goto(t, "p_get")
  /\ UNCHANGED <<reg, slock, res, made, hist>>

MissingProviderError_Registration(k) == ProviderRegistrationFailed(k, "missing")
\* .ok_or_else(|| ContainerError::DependencyNotRegistered { type_name: .. })
MissingProviderError(k) == DependencyNotRegistered(k)

ReleaseAfterClone_Held(lk, h) == lk
\* the end of the `let provider = { ... };` block: the read guard is dropped
\* once the provider has been cloned, before the match that invokes it
ReleaseAfterClone(lk, h) == Release(lk, h)

\* providers.get(type_key).cloned().ok_or_else(|| DependencyNotRegistered { .. })?
ResolveProvidersGet(t) ==
  /\ At(t, "resolve", "p_get")
  /\ IF ContainsKey(providers, Top(t).key)
       THEN /\ stack' = [stack EXCEPT ![t][Depth(t)].pc = "dispatch",
                                      ![t][Depth(t)].prov = MapGet(providers, Top(t).key, NoProvider)]
            /\ plock' = ReleaseAfterClone(plock, Me(t))
            /\ UNCHANGED <<res, hist_res>>
       ELSE /\ ReturnResolve(t, MissingProviderError(Top(t).key), NoVal)
            /\ plock' = Release(plock, Me(t))
  /\ UNCHANGED <<reg, slock, made, hist_reg>>

\* let instance = match provider { Instance(obj) => obj.clone_ref(py),
\*                                 Class(cls) => cls.call0(py)?, Factory(f) => f.call0(py)? };
\* the Instance arm returns at once; the other arms enter the callable
ResolveDispatch(t) ==
  /\ At(t, "resolve", "dispatch")
  /\ IF Top(t).prov.kind = "Instance"
       THEN ReturnResolve(t, NoErr, CloneRef(Top(t).prov.obj))
       ELSE /\ stack' = [stack EXCEPT ![t][Depth(t)].pc = "call",
                                      ![t][Depth(t)].inv = @ + 1]
            /\ UNCHANGED <<res, hist_res>>
  /\ UNCHANGED <<reg, plock, slock, made, hist_reg>>

CacheAfterResolve_Memo(cache, k, v) == MapInsert(cache, k, v)
\* what resolve leaves in the singleton cache when it returns a constructed
\* value: resolve has no statement that writes self.singletons
CacheAfterResolve(cache, k, v) == cache

\* call0 returns a new object; Ok(instance)
ConstructorReturns(t) ==
  /\ At(t, "resolve", "call")
  /\ LET c == Top(t).prov.fn
         v == [by |-> c, n |-> made[c] + 1]
     IN /\ made' = [made EXCEPT ![c] = @ + 1]
        /\ singletons' = CacheAfterResolve(singletons, Top(t).key, v)
        /\ ReturnResolve(t, NoErr, v)
  /\ UNCHANGED <<providers, plock, slock, hist_reg>>

PcAfterRaise_Retry == "dispatch"
\* the `?` after call0: an Err leaves resolve at once
PcAfterRaise == "return"

\* call0 raises; `?` converts the PyErr with From<PyErr> and returns it
ConstructorRaises(t) ==
  /\ At(t, "resolve", "call")
  /\ \E x \in Exceptions :
       IF PcAfterRaise = "return"
         THEN ReturnResolve(t, PythonError(x), NoVal)
         ELSE /\ stack' = Goto(t, PcAfterRaise)
              /\ UNCHANGED <<res, hist_res>>
  /\ UNCHANGED <<reg, plock, slock, made, hist_reg>>

\* ------------------------------------------------------ len / is_empty
\* RustContainer::len: self.providers.read().unwrap().len()
RustContainer_len == MapLen(providers)

RustContainer_is_empty_Cache == MapIsEmpty(singletons)
\* RustContainer::is_empty: self.providers.read().unwrap().is_empty()
RustContainer_is_empty == MapIsEmpty(providers)

\* Container::__len__: the read guard lives for the one expression
CallLen(t) ==
  /\ CanCall(t)
  /\ ops < MaxOps
  /\ CanAcquireRead(plock)
  /\ ops' = ops + 1
  /\ res' = [NoRes EXCEPT !.op = "len", !.num = RustContainer_len]
  /\ UNCHANGED <<reg, plock, slock, stack, made, firstReg, okRegs, regCalls, hist_res>>

\* Container::is_empty
CallIsEmpty(t) ==
  /\ CanCall(t)
  /\ ops < MaxOps
  /\ CanAcquireRead(plock)
  /\ ops' = ops + 1
  /\ res' = [NoRes EXCEPT !.op = "is_empty", !.flag = RustContainer_is_empty]
  /\ UNCHANGED <<reg, plock, slock, stack, made, firstReg, okRegs, regCalls, hist_res>>

\* ------------------------------------------------------------- system
Next ==
  \E t \in Threads :
    \/ CallRegister(t)
    \/ RegisterLock(t)
    \/ RegisterCheck(t)
    \/ RegisterInsert(t)
    \/ CallResolve(t)
    \/ ResolveCacheLock(t)
    \/ ResolveCacheGet(t)
    \/ ResolveProvidersLock(t)
    \/ ResolveProvidersGet(t)
    \/ ResolveDispatch(t)
    \/ ConstructorReturns(t)
    \/ ConstructorRaises(t)
    \/ CallLen(t)
    \/ CallIsEmpty(t)

Spec == Init /\ [][Next]_vars

\* ------------------------------------------------------------- properties
CtorKinds == {"Class", "Factory"}

\* the registry that holds exactly the first successful registration of each identity
RegistryOf(f) == {[key |-> k, val |-> f[k]] : k \in {k2 \in Keys : f[k2] # NoProvider}}

\* in this step thread t's innermost call of kind op returns to its caller
Completes(t, op) == Depth(t) > 0 /\ Top(t).op = op /\ Len(stack'[t]) = Depth(t) - 1

\* in this step thread t executes a statement of resolve itself (not of the
\* constructor/factory that resolve is running)
ResolveStep(t) == Depth(t) > 0 /\ Top(t).op = "resolve" /\ stack'[t] # stack[t]
                  /\ Len(stack'[t]) <= Depth(t)

\* frames of register calls for identity k that have not returned yet
RegistersInFlight(k) ==
  UNION {{<<t, d>> : d \in {d2 \in 1..Depth(t) : /\ stack[t][d2].op = "register"
                                                 /\ stack[t][d2].key = k}} :
         t \in Threads}

\* frames that are between the duplicate check and the insert of a registration
InCheckThenInsert ==
  UNION {{<<t, d>> : d \in {d2 \in 1..Depth(t) : stack[t][d2].pc \in {"r_check", "r_insert"}}} :
         t \in Threads}

\* C1: a register call (of any kind) for an identity that is already in the
\* registry returns DuplicateRegistration; the registry always holds, for each
\* identity, exactly the provider of its first successful registration; and
\* every value resolve returns is the one the first registration defines.
C1_DuplicateRejected ==
  /\ providers = RegistryOf(firstReg)
  /\ (res.op = "register" /\ res.pre) => res.err = DuplicateRegistration(res.key)
  /\ (res.op = "resolve" /\ res.err = NoErr) =>
       LET p == firstReg[res.key]
       IN IF p.kind = "Instance" THEN res.val = p.obj
                                 ELSE p.kind \in CtorKinds /\ res.val.by = p.fn

\* a resolve returned after the identity had seen a rejected second registration
C1_Witness ==
  /\ res.op = "resolve" /\ res.err = NoErr
  /\ regCalls[res.key] = 2 /\ okRegs[res.key] = 1
  /\ RegistersInFlight(res.key) = {}

\* C2: a resolve that returns while its identity has no entry in the registry
\* returns DependencyNotRegistered, has invoked no constructor or factory, and
\* no statement of any resolve changes the registry or the cache.
C2_Step ==
  \A t \in Threads :
    /\ (Completes(t, "resolve") /\ ~Registered(Top(t).key)) =>
         /\ res'.err = DependencyNotRegistered(Top(t).key)
         /\ res'.inv = 0
         /\ made' = made
    /\ ResolveStep(t) => (providers' = providers /\ singletons' = singletons)

C2_NotRegistered == [][C2_Step]_vars

\* resolve of a missing identity failed on a container that holds other identities
C2_Witness ==
  /\ res.op = "resolve" /\ res.err.kind = "DependencyNotRegistered"
  /\ providers # {} /\ ~Registered(res.key)

\* C3: for an identity registered with Instance(v), every resolve that returns
\* a value returns v itself and has invoked no constructor or factory, and a
\* resolve started after the registration always returns a value.
C3_InstanceShared ==
  (res.op = "resolve" /\ firstReg[res.key].kind = "Instance") =>
    /\ res.pre => res.err = NoErr
    /\ res.err = NoErr => (res.val = firstReg[res.key].obj /\ res.inv = 0)
    /\ retVals[res.key] \subseteq {firstReg[res.key].obj}

\* the same instance was returned by two resolves
C3_Witness ==
  /\ res.op = "resolve" /\ res.val \in ExtObjects
  /\ okRes[res.key] = 2 /\ retVals[res.key] = {res.val}

\* C4: for an identity registered with a Class or Factory provider, each
\* resolve that returns a value has invoked the callable exactly once and
\* returns the object that invocation produced; after k such resolves the
\* callable has constructed k objects for it and the k returned objects are
\* pairwise distinct.
C4_FreshEachResolve ==
  /\ \A k \in Keys : firstReg[k].kind \in CtorKinds =>
       /\ Cardinality(retVals[k]) = okRes[k]
       /\ \A v \in retVals[k] : v.by = firstReg[k].fn
  /\ \A c \in Callables :
       made[c] = Cardinality(UNION {retVals[k] : k \in {k2 \in Keys : firstReg[k2].fn = c}})
  /\ (res.op = "resolve" /\ res.err = NoErr /\ firstReg[res.key].kind \in CtorKinds) =>
       /\ res.inv = 1
       /\ res.val = [by |-> firstReg[res.key].fn, n |-> made[firstReg[res.key].fn]]

\* two resolves of one identity returned two different constructed objects
C4_Witness ==
  /\ res.op = "resolve" /\ res.val.by \in Callables
  /\ okRes[res.key] = 2 /\ Cardinality(retVals[res.key]) = 2 /\ res.val.n = 2

\* C5: len() is the number of identities for which a register call has
\* succeeded, is_empty() holds exactly when len() is 0, a call of either
\* returns that value, and no statement of resolve changes either.
C5_Now ==
  /\ RustContainer_len = Cardinality({k \in Keys : okRegs[k] > 0})
  /\ RustContainer_is_empty <=> (RustContainer_len = 0)
  /\ res.op = "len" => res.num = RustContainer_len
  /\ res.op = "is_empty" => (res.flag <=> (RustContainer_len = 0))

C5_Step ==
  /\ C5_Now
  /\ C5_Now'
  /\ \A t \in Threads :
       ResolveStep(t) => /\ RustContainer_len' = RustContainer_len
                         /\ RustContainer_is_empty' = RustContainer_is_empty

C5_LenCountsRegistrations == [][C5_Step]_vars

\* is_empty() answered false on a container with one registration, after a
\* resolve of the registered identity has returned
C5_Witness ==
  /\ res.op = "is_empty" /\ ~res.flag
  /\ RustContainer_len = 1
  /\ \E k \in Keys : Registered(k) /\ okRes[k] + errRes[k] > 0

\* holders of a lock that belong to thread t
HeldBy(lk, t) == {h \in lk.w \cup lk.r : h[1] = t}

\* thread t waits for a lock that cannot be granted now
Blocked(t) ==
  \/ At(t, "register", "r_lock") /\ ~CanAcquireWrite(plock)
  \/ At(t, "resolve", "s_lock") /\ ~CanAcquireRead(slock)
  \/ At(t, "resolve", "p_lock") /\ ~CanAcquireRead(plock)

\* C6: when several callers register the same identity, at most one call
\* returns Ok and every other returns DuplicateRegistration; once no call for
\* the identity is in flight exactly one has succeeded, and the registry holds
\* one entry for it, with the provider of the call that succeeded.  No two
\* registrations are between their duplicate check and their insert together.
C6_OneWinner ==
  /\ \A k \in Keys :
       /\ okRegs[k] <= 1
       /\ okRegs[k] = 1 <=> Registered(k)
       /\ Cardinality({e \in providers : e.key = k}) <= 1
       /\ \A e \in providers : e.key = k => e.val = firstReg[k]
       /\ (RegistersInFlight(k) = {} /\ regCalls[k] > 0) => okRegs[k] = 1
  /\ res.op = "register" => res.err \in {NoErr, DuplicateRegistration(res.key)}
  /\ Cardinality(InCheckThenInsert) <= 1
  /\ Cardinality(plock.w) <= 1

\* one caller is about to insert while another, registering the same identity,
\* waits for the write lock
C6_Witness ==
  \E t1, t2 \in Threads :
    /\ t1 # t2
    /\ At(t1, "register", "r_insert")
    /\ At(t2, "register", "r_lock")
    /\ Top(t1).key = Top(t2).key
    /\ Top(t1).arg.kind # Top(t2).arg.kind

\* C7: a register call for an identity that no other register call names
\* returns Ok, and once all calls have returned, with every identity named by
\* at most one call, len() is the number of calls.
C7_DistinctAllSucceed ==
  /\ (res.op = "register" /\ regCalls[res.key] = 1) => res.err = NoErr
  /\ (\A k \in Keys : regCalls[k] <= 1 /\ RegistersInFlight(k) = {}) =>
       RustContainer_len = Cardinality({k \in Keys : regCalls[k] = 1})

\* every identity was registered once, all calls returned Ok, len() is 3
C7_Witness ==
  /\ \A k \in Keys : regCalls[k] = 1 /\ RegistersInFlight(k) = {}
  /\ RustContainer_len = 3
  /\ res.op = "register" /\ res.err = NoErr

\* C8: while a constructor or factory runs for a resolve, the resolving thread
\* holds neither the registry lock nor the cache lock; a thread never waits
\* for a lock it holds itself; and whenever some call is in progress, some
\* caller in progress can take a step.
C8_NoLockDuringCall ==
  /\ \A t \in Threads : \A d \in 1..Depth(t) :
       stack[t][d].pc = "call" =>
         /\ \A h \in HeldBy(plock, t) : h[2] > d
         /\ \A h \in HeldBy(slock, t) : h[2] > d
  /\ \A t \in Threads : Blocked(t) => (HeldBy(plock, t) = {} /\ HeldBy(slock, t) = {})
  /\ (\E t \in Threads : Depth(t) > 0) => (\E t \in Threads : Depth(t) > 0 /\ ~Blocked(t))

\* a factory run by resolve is inside a register call of its own, which has
\* taken the write lock of the registry
C8_Witness ==
  \E t \in Threads :
    /\ Depth(t) = 2
    /\ stack[t][1].pc = "call"
    /\ stack[t][2].pc = "r_insert"
    /\ <<t, 2>> \in plock.w

\* C9: when the constructor or factory raises, the error resolve hands its
\* caller is of another kind than the one for an unregistered identity, both
\* as RustContainer::resolve returns it and as Container::resolve raises it,
\* and it carries the cause.
C9_ConstructionErrorDistinct ==
  (res.op = "resolve" /\ res.inv > 0 /\ res.err # NoErr) =>
    /\ res.err.kind # DependencyNotRegistered(res.key).kind
    /\ \E x \in Exceptions : res.err.info = PyErrToString(x)
    /\ res.exc.type # map_err(DependencyNotRegistered(res.key)).type

\* the part of C9 that RustContainer::resolve alone decides
C9_CoreErrorDistinct ==
  (res.op = "resolve" /\ res.inv > 0 /\ res.err # NoErr) =>
    /\ res.err.kind = "PythonError"
    /\ \E x \in Exceptions : res.err.info = PyErrToString(x)

\* C10: one resolve invokes the constructor or factory at most once, exactly
\* once when its identity was registered with a Class or Factory provider
\* before it started, whether or not earlier resolves failed; a resolve that
\* returns a construction failure leaves registry, cache and the callable's
\* own count of constructed objects as they were.
C10_Now ==
  /\ \A t \in Threads : \A d \in 1..Depth(t) : stack[t][d].inv <= 1
  /\ res.op = "resolve" =>
       /\ res.inv <= 1
       /\ res.err.kind = "PythonError" => res.inv = 1
       /\ (res.pre /\ firstReg[res.key].kind \in CtorKinds) => res.inv = 1

C10_Step ==
  /\ C10_Now
  /\ C10_Now'
  /\ \A t \in Threads :
       (Completes(t, "resolve") /\ res'.err.kind = "PythonError") =>
         /\ providers' = providers
         /\ singletons' = singletons
         /\ made' = made
         /\ okRes' = okRes

C10_NoRetry == [][C10_Step]_vars

\* a resolve returned a fresh object for an identity whose earlier resolve failed
C10_Witness ==
  /\ res.op = "resolve" /\ res.err = NoErr /\ res.inv = 1
  /\ errRes[res.key] = 1 /\ okRes[res.key] = 1
  /\ \A t \in Threads : Depth(t) = 0

\* C11: a resolve of an identity that was registered before the resolve
\* started never fails with an error of the container, whatever other callers
\* resolve or register meanwhile: it returns a value, or the PythonError of a
\* constructor or factory that itself raised in this very call; for an
\* Instance provider it always returns the registered object.
C11_Step ==
  \A t \in Threads :
    (Completes(t, "resolve") /\ Top(t).pre) =>
      /\ res'.err # NoErr => (Top(t).pc = "call" /\ res'.err.kind = "PythonError")
      /\ firstReg[Top(t).key].kind = "Instance" =>
           (res'.err = NoErr /\ res'.val = firstReg[Top(t).key].obj)

C11_ConcurrentResolve == [][C11_Step]_vars

\* two callers hold the read lock of the registry at once, both resolving the
\* same identity, which was registered before either started
C11_Witness ==
  \E t1, t2 \in Threads :
    /\ t1 # t2
    /\ At(t1, "resolve", "p_get") /\ At(t2, "resolve", "p_get")
    /\ Top(t1).key = Top(t2).key
    /\ Top(t1).pre /\ Top(t2).pre
    /\ {<<t1, Depth(t1)>>, <<t2, Depth(t2)>>} \subseteq plock.r

\* C11 as first stated: every resolve of an identity registered before the
\* resolve started returns without error
C11_AlwaysSucceeds ==
  (res.op = "resolve" /\ res.pre) => res.err = NoErr

\* C12: keys are compared by the identity of the type object, not by its
\* name.  A register call is rejected only if that very type object was
\* registered before, so two type objects of one name both register and each
\* resolves to its own provider; calls that name the same type object meet
\* the same entry: the second registration is rejected and a resolve started
\* after the registration finds it.
C12_KeyedByIdentity ==
  /\ \A k \in Keys : okRegs[k] <= 1 /\ (Registered(k) <=> firstReg[k] # NoProvider)
  /\ res.op = "register" =>
       /\ res.err.kind = "DuplicateRegistration" => firstReg[res.key] # NoProvider
       /\ res.pre => res.err.kind = "DuplicateRegistration"
  /\ res.op = "resolve" =>
       /\ res.pre => res.err.kind # "DependencyNotRegistered"
       /\ res.err.kind # "DependencyNotRegistered" => firstReg[res.key] # NoProvider
       /\ res.err = NoErr =>
            LET p == firstReg[res.key]
            IN IF p.kind = "Instance" THEN res.val = p.obj ELSE res.val.by = p.fn

\* two type objects of one name are registered with different providers and a
\* resolve of one of them returned a value
C12_Witness ==
  \E k1, k2 \in Keys :
    /\ k1 # k2 /\ type_name(k1) = type_name(k2)
    /\ Registered(k1) /\ Registered(k2)
    /\ firstReg[k1] # firstReg[k2]
    /\ res.op = "resolve" /\ res.key = k1 /\ res.err = NoErr

\* C13: the registry only grows.  A register call that returns Ok leaves its
\* identity mapped to its provider, no step removes or changes an entry, and a
\* resolve that started when its identity was registered never returns
\* DependencyNotRegistered.
C13_Step ==
  /\ providers \subseteq providers'
  /\ \A k \in Keys : Cardinality({e \in providers' : e.key = k}) <= 1
  /\ \A t \in Threads :
       /\ (Completes(t, "register") /\ res'.err = NoErr) =>
            [key |-> Top(t).key, val |-> Top(t).arg] \in providers'
       /\ (Completes(t, "resolve") /\ Top(t).pre) =>
            res'.err.kind # "DependencyNotRegistered"

C13_RegistryOnlyGrows == [][C13_Step]_vars

\* an identity registered first is still resolved after another identity was
\* registered and after a second registration of it was attempted
C13_Witness ==
  /\ res.op = "resolve" /\ res.pre /\ res.err = NoErr
  /\ regCalls[res.key] = 2
  /\ RegistersInFlight(res.key) = {}
  /\ [key |-> res.key, val |-> firstReg[res.key]] \in providers

\* C14: the singleton cache is empty in every state, whatever register and
\* resolve calls have run, and no resolve returns from its cache lookup.
C14_Step ==
  /\ singletons = {}
  /\ singletons' = {}
  /\ \A t \in Threads : Completes(t, "resolve") => Top(t).pc # "s_get"

C14_CacheNeverWritten == [][C14_Step]_vars

\* after a resolve of a Class or Factory identity returned an object, another
\* resolve of that identity has missed the cache
C14_Witness ==
  \E t \in Threads :
    /\ At(t, "resolve", "p_lock")
    /\ firstReg[Top(t).key].kind \in CtorKinds
    /\ okRes[Top(t).key] = 1
    /\ res.op = "resolve" /\ res.key = Top(t).key /\ res.err = NoErr
    /\ singletons = {}

\* C15: a resolve holds the read guard of the cache exactly while it looks
\* the cache up and the read guard of the registry exactly while it looks the
\* registry up, in that order and never both; no caller holds a guard of the
\* cache and a guard of the registry at once; a write guard of the registry
\* is held by one caller alone, with no reader beside it.
C15_LockDiscipline ==
  /\ \A t \in Threads : HeldBy(plock, t) = {} \/ HeldBy(slock, t) = {}
  /\ \A t \in Threads : \A d \in 1..Depth(t) :
       LET f == stack[t][d]
       IN /\ (<<t, d>> \in slock.r) <=> (f.op = "resolve" /\ f.pc = "s_get")
          /\ (<<t, d>> \in plock.r) <=> (f.op = "resolve" /\ f.pc = "p_get")
          /\ (<<t, d>> \in plock.w) <=> (f.op = "register" /\ f.pc \in {"r_check", "r_insert"})
  /\ \A h \in plock.r \cup plock.w \cup slock.r : h[2] <= Depth(h[1])
  /\ slock.w = {}
  /\ plock.w # {} => (plock.r = {} /\ Cardinality(plock.w) = 1)

\* one caller reads the registry under its read guard while the other reads
\* the cache under its read guard
C15_Witness ==
  \E t, u \in Threads :
    /\ t # u
    /\ At(t, "resolve", "p_get") /\ <<t, Depth(t)>> \in plock.r
    /\ At(u, "resolve", "s_get") /\ <<u, Depth(u)>> \in slock.r

\* ------------------------------------------------------------- fairness
\* the statements of the container and the return of a running constructor
\* or factory, for thread t; starting a call is the caller's choice
Step(t) ==
  \/ RegisterLock(t)
  \/ RegisterCheck(t)
  \/ RegisterInsert(t)
  \/ ResolveCacheLock(t)
  \/ ResolveCacheGet(t)
  \/ ResolveProvidersLock(t)
  \/ ResolveProvidersGet(t)
  \/ ResolveDispatch(t)
  \/ ConstructorReturns(t)
  \/ ConstructorRaises(t)

\* every thread that can run does run, a free lock is granted to a waiting
\* thread, and a constructor or factory that is running returns or raises
FairSpec == Spec /\ \A t \in Threads : WF_vars(Step(t))

\* C16: under fair scheduling, with constructors and factories that return,
\* every register and resolve call returns: each call in progress, at the top
\* level or nested inside a factory, eventually leaves its thread's stack.
C16_EveryCallReturns ==
  \A t \in Threads : \A d \in 1..MaxDepth :
    (Depth(t) >= d) ~> (Depth(t) < d)

\* a resolve re-entered from inside a factory holds the read guard of the
\* registry while its outer resolve waits for the factory to return
C16_Witness ==
  \E t \in Threads :
    /\ Depth(t) = 2
    /\ stack[t][1].op = "resolve" /\ stack[t][1].pc = "call"
    /\ stack[t][2].op = "resolve" /\ stack[t][2].pc = "p_get"
    /\ <<t, 2>> \in plock.r

\* C17: a register call returns Ok exactly when its identity is not in the
\* registry at the moment it returns (under the write guard it took), for
\* every kind of provider, and DuplicateRegistration otherwise; no call of any
\* operation returns ProviderRegistrationFailed; a provider whose callable
\* raises is rejected only by resolve, with PythonError.
C17_Step ==
  /\ res'.err.kind # "ProviderRegistrationFailed"
  /\ res'.err.kind = "PythonError" => res'.op = "resolve"
  /\ \A t \in Threads :
       Completes(t, "register") =>
         IF Registered(Top(t).key)
           THEN res'.err = DuplicateRegistration(Top(t).key)
           ELSE res'.err = NoErr /\ [key |-> Top(t).key, val |-> Top(t).arg] \in providers'

C17_NoEligibilityCheck == [][C17_Step]_vars

\* a factory that has never produced a value was registered without error
\* and its resolve failed with PythonError
C17_Witness ==
  /\ res.op = "resolve" /\ res.err.kind = "PythonError"
  /\ firstReg[res.key].kind = "Factory"
  /\ okRegs[res.key] = 1
  /\ made[firstReg[res.key].fn] = 0

\* the value a provider yields: the registered object, or an object made by
\* its class or factory
YieldedBy(v, p) ==
  IF p.kind = "Instance" THEN v = p.obj ELSE p.kind \in CtorKinds /\ v.by = p.fn

\* C18: a resolve that overlaps registrations of its identity sees the
\* registry either without the entry or with the entry of the registration
\* that succeeded: it returns DependencyNotRegistered only if the identity is
\* absent when it looks it up (so it was absent when the resolve started), and
\* otherwise the provider it cloned, the value it returns and the callable it
\* invokes are those of the one successful registration, never those of a
\* registration that was rejected.
C18_Step ==
  /\ \A t \in Threads : \A d \in 1..Depth(t) :
       stack[t][d].pc \in {"dispatch", "call"} => stack[t][d].prov = firstReg[stack[t][d].key]
  /\ \A t \in Threads :
       Completes(t, "resolve") =>
         /\ res'.err.kind = "DependencyNotRegistered" =>
              (~Registered(Top(t).key) /\ ~Top(t).pre /\ Top(t).pc = "p_get")
         /\ res'.err.kind # "DependencyNotRegistered" =>
              [key |-> Top(t).key, val |-> firstReg[Top(t).key]] \in providers
         /\ res'.err = NoErr => YieldedBy(res'.val, firstReg[Top(t).key])
         /\ res'.err.kind = "PythonError" => firstReg[Top(t).key].kind \in CtorKinds

C18_AtomicRegistration == [][C18_Step]_vars

\* a resolve waits for the read guard of the registry while the first
\* registration of the same identity holds the write guard, about to insert
C18_Witness ==
  \E t, u \in Threads :
    /\ t # u
    /\ At(t, "resolve", "p_lock")
    /\ At(u, "register", "r_insert")
    /\ Top(t).key = Top(u).key
    /\ ~Registered(Top(t).key)
    /\ Blocked(t)

====
